---- MODULE Spec2Model ----
(***************************************************************************)
(* ndcopy: copy2/copy3/copy4 and fill2/fill3/fill4 of src/src/lib.rs.      *)
(*                                                                         *)
(* One call of one of the six functions is modelled as a state machine     *)
(* over the loop nest of the function: a step is either the test of a      *)
(* loop head (entering the loop body or leaving the loop) or one pass of   *)
(* the innermost body, which transfers one row (one "run").                *)
(*                                                                         *)
(* Coordinates, extents and shapes are tuples; axis a of the source        *)
(* (0-based) is component a+1 here.  Buffers are functions on 0..len-1.    *)
(* All coordinates of the model are far below 2^31, so the u32 / usize     *)
(* arithmetic of the source is exact on them and is written unreduced.     *)
(***************************************************************************)
EXTENDS Integers, Sequences, FiniteSets, TLC

(* ------------------------------ bounds ------------------------------- *)
\* largest size of one axis of a buffer shape
MaxDim == 2
\* largest start coordinate on one axis
MaxStart == 1
\* largest extent of the copied / filled region on one axis
MaxExt == 2
\* fill values are 1..MaxValue
MaxValue == 1

VARIABLES
    fn,          \* the function called: "copy2" .. "fill4"
    copy_shape,  \* copy_shape / fill_shape
    src, src_shape, src_start,
    dst, dst_shape, dst_start,
    value,       \* fillN's value (0 for copyN)
    src_y, dst_y, src_z, dst_z, src_w, dst_w,
    ny, nz, nw,  \* iterations begun by the `for _ in 0..copy_shape[k]` ranges
    pc,          \* "w", "z", "y": the loop head about to be tested;
                 \* "done": returned; "panic": slice index out of range
    runs,        \* history: the rows transferred so far, in order
    written      \* history: the dst indices written so far

vars == <<fn, copy_shape, src, src_shape, src_start, dst, dst_shape, dst_start,
          value, src_y, dst_y, src_z, dst_z, src_w, dst_w, ny, nz, nw, pc,
          runs, written>>

(* ------------------------- shapes and buffers ------------------------ *)
RECURSIVE Size(_)
\* number of elements of a buffer of the given shape (SRC_SIZE = 10 * 11)
Size(shape) ==
    IF shape = <<>> THEN 1 ELSE Head(shape) * Size(Tail(shape))

RECURSIVE Linearize(_, _)
\* Shape::linearize of a row-major shape, axis 0 fastest:
\* p[0] + X * (p[1] + Y * (p[2] + Z * p[3]))
Linearize(shape, p) ==
    IF Len(p) = 1 THEN p[1]
    ELSE p[1] + shape[1] * Linearize(Tail(shape), Tail(p))

RECURSIVE Delinearize(_, _)
\* the coordinate of index i of a buffer of the given shape
Delinearize(shape, i) ==
    IF shape = <<>> THEN <<>>
    ELSE <<i % shape[1]>> \o Delinearize(Tail(shape), i \div shape[1])

RECURSIVE CoordLabel(_)
\* a number naming a coordinate, the same whatever the shape of the buffer
CoordLabel(p) ==
    IF p = <<>> THEN 0 ELSE p[1] + (MaxDim + 1) * CoordLabel(Tail(p))

\* a source buffer whose element at coordinate p is 1 + CoordLabel(p)
SrcOf(shape) ==
    [i \in 0 .. Size(shape) - 1 |-> 1 + CoordLabel(Delinearize(shape, i))]

\* a source buffer holding v everywhere ([1; SRC_SIZE])
ConstBuf(shape, v) == [i \in 0 .. Size(shape) - 1 |-> v]

\* a destination buffer whose elements are pairwise different and are no
\* source element and no fill value
DstOf(shape) == [i \in 0 .. Size(shape) - 1 |-> 0 - (i + 1)]

BufLen(buf) == Cardinality(DOMAIN buf)

(* ---------------------------- one row --------------------------------- *)
\* SliceInBounds with the end compared strictly
SliceInBounds_Strict(start, end, len) == start <= end /\ end < len

\* buf[start..end]: the range check of slice indexing
SliceInBounds(start, end, len) == start <= end /\ end <= len

\* dst[ds..de].clone_from_slice(&src[ss..se]) on slices that are in bounds
CloneFromSlice(d, ds, de, s, ss) ==
    [i \in DOMAIN d |-> IF ds <= i /\ i < de THEN s[ss + (i - ds)] ELSE d[i]]

\* FillSlice with the end of the range taken as inclusive
FillSlice_Inclusive(d, ds, de, v) ==
    [i \in DOMAIN d |-> IF ds <= i /\ i <= de THEN v ELSE d[i]]

\* dst[ds..de].fill(value.clone()) on a slice that is in bounds
FillSlice(d, ds, de, v) ==
    [i \in DOMAIN d |-> IF ds <= i /\ i < de THEN v ELSE d[i]]

\* CopyRowDst as an element-by-element loop of checked accesses, which
\* writes the elements that are in range before it fails
CopyRowDst_Partial(d, ds, de, s, ss, se) ==
    IF SliceInBounds(ds, de, BufLen(d)) /\ SliceInBounds(ss, se, BufLen(s))
    THEN [ok |-> TRUE, dst |-> CloneFromSlice(d, ds, de, s, ss)]
    ELSE [ok |-> FALSE,
          dst |-> [i \in DOMAIN d |->
                     IF ds <= i /\ i < de /\ (ss + (i - ds)) \in DOMAIN s
                     THEN s[ss + (i - ds)] ELSE d[i]]]

\* the statement dst[ds..de].clone_from_slice(&src[ss..se]): both slices are
\* taken (and range-checked) before any element is cloned
CopyRowDst(d, ds, de, s, ss, se) ==
    IF SliceInBounds(ds, de, BufLen(d)) /\ SliceInBounds(ss, se, BufLen(s))
    THEN [ok |-> TRUE, dst |-> CloneFromSlice(d, ds, de, s, ss)]
    ELSE [ok |-> FALSE, dst |-> d]

\* the statement dst[ds..de].fill(value.clone())
FillRowDst(d, ds, de, v) ==
    IF SliceInBounds(ds, de, BufLen(d))
    THEN [ok |-> TRUE, dst |-> FillSlice(d, ds, de, v)]
    ELSE [ok |-> FALSE, dst |-> d]

\* RowEnd one element too far
RowEnd_OffByOne(row_start, row_length) == row_start + row_length + 1

\* let src_row_end = src_row_start + row_length as usize
RowEnd(row_start, row_length) == row_start + row_length

\* CopyRow with the destination row linearized by src_shape
CopyRow_SrcShape(c, sp, dp) ==
    LET row_length == c.copy_shape[1]
        src_row_start == Linearize(c.src_shape, sp)
        src_row_end == RowEnd(src_row_start, row_length)
        dst_row_start == Linearize(c.src_shape, dp)
        dst_row_end == RowEnd(dst_row_start, row_length)
        r == CopyRowDst(c.dst, dst_row_start, dst_row_end,
                        c.src, src_row_start, src_row_end)
    IN  IF r.ok
        THEN [c EXCEPT !.dst = r.dst,
                       !.src_y = @ + 1, !.dst_y = @ + 1, !.ny = @ + 1,
                       !.runs = Append(@, [src_row_start |-> src_row_start,
                                           dst_row_start |-> dst_row_start,
                                           row_length |-> row_length]),
                       !.written = @ \cup (dst_row_start .. dst_row_end - 1)]
        ELSE [c EXCEPT !.dst = r.dst, !.pc = "panic"]

\* the body of the innermost loop of copyN, for the row at source
\* coordinate sp and destination coordinate dp
CopyRow(c, sp, dp) ==
    LET row_length == c.copy_shape[1]
        src_row_start == Linearize(c.src_shape, sp)
        src_row_end == RowEnd(src_row_start, row_length)
        dst_row_start == Linearize(c.dst_shape, dp)
        dst_row_end == RowEnd(dst_row_start, row_length)
        r == CopyRowDst(c.dst, dst_row_start, dst_row_end,
                        c.src, src_row_start, src_row_end)
    IN  IF r.ok
        THEN [c EXCEPT !.dst = r.dst,
                       !.src_y = @ + 1, !.dst_y = @ + 1, !.ny = @ + 1,
                       !.runs = Append(@, [src_row_start |-> src_row_start,
                                           dst_row_start |-> dst_row_start,
                                           row_length |-> row_length]),
                       !.written = @ \cup (dst_row_start .. dst_row_end - 1)]
        ELSE [c EXCEPT !.dst = r.dst, !.pc = "panic"]

\* the body of the innermost loop of fillN, for the row at coordinate dp
FillRow(c, dp) ==
    LET row_length == c.copy_shape[1]
        dst_row_start == Linearize(c.dst_shape, dp)
        dst_row_end == RowEnd(dst_row_start, row_length)
        r == FillRowDst(c.dst, dst_row_start, dst_row_end, c.value)
    IN  IF r.ok
        THEN [c EXCEPT !.dst = r.dst, !.dst_y = @ + 1, !.ny = @ + 1,
                       !.runs = Append(@, [src_row_start |-> 0,
                                           dst_row_start |-> dst_row_start,
                                           row_length |-> row_length]),
                       !.written = @ \cup (dst_row_start .. dst_row_end - 1)]
        ELSE [c EXCEPT !.dst = r.dst, !.pc = "panic"]

(* ------------------------- the loop nests ----------------------------- *)
\* EnterY with `let mut src_y` hoisted out of the z loop: src_y is not reset
EnterY_KeepSrc(c) ==
    [c EXCEPT !.dst_y = c.dst_start[2], !.ny = 0, !.pc = "y"]

\* entering the y loop: let mut src_y = src_start[1]; let mut dst_y = ...
EnterY(c) ==
    [c EXCEPT !.src_y = IF c.src_start = <<>> THEN 0 ELSE c.src_start[2],
              !.dst_y = c.dst_start[2], !.ny = 0, !.pc = "y"]

\* EnterZ with `let mut src_z`, `let mut dst_z` hoisted out of the w loop
EnterZ_KeepZ(c) == [c EXCEPT !.nz = 0, !.pc = "z"]

\* entering the z loop
EnterZ(c) ==
    [c EXCEPT !.src_z = IF c.src_start = <<>> THEN 0 ELSE c.src_start[3],
              !.dst_z = c.dst_start[3], !.nz = 0, !.pc = "z"]

\* NextZ without dst_z += 1
NextZ_KeepDst(c) ==
    [c EXCEPT !.src_z = IF c.src_start = <<>> THEN 0 ELSE @ + 1,
              !.nz = @ + 1, !.pc = "z"]

\* the end of one pass of the z loop body: src_z += 1; dst_z += 1
NextZ(c) ==
    [c EXCEPT !.src_z = IF c.src_start = <<>> THEN 0 ELSE @ + 1,
              !.dst_z = @ + 1, !.nz = @ + 1, !.pc = "z"]

\* the end of one pass of the w loop body: src_w += 1; dst_w += 1
NextW(c) ==
    [c EXCEPT !.src_w = IF c.src_start = <<>> THEN 0 ELSE @ + 1,
              !.dst_w = @ + 1, !.nw = @ + 1, !.pc = "w"]

Return(c) == [c EXCEPT !.pc = "done"]

Copy2Step(c) ==
    IF c.ny < c.copy_shape[2]
    THEN CopyRow(c, <<c.src_start[1], c.src_y>>, <<c.dst_start[1], c.dst_y>>)
    ELSE Return(c)

\* Fill2Step with the range 0..=fill_shape[1]
Fill2Step_Inclusive(c) ==
    IF c.ny <= c.copy_shape[2]
    THEN FillRow(c, <<c.dst_start[1], c.dst_y>>)
    ELSE Return(c)

Fill2Step(c) ==
    IF c.ny < c.copy_shape[2]
    THEN FillRow(c, <<c.dst_start[1], c.dst_y>>)
    ELSE Return(c)

Copy3Step(c) ==
    IF c.pc = "z"
    THEN IF c.nz < c.copy_shape[3] THEN EnterY(c) ELSE Return(c)
    ELSE IF c.ny < c.copy_shape[2]
         THEN CopyRow(c, <<c.src_start[1], c.src_y, c.src_z>>,
                         <<c.dst_start[1], c.dst_y, c.dst_z>>)
         ELSE NextZ(c)

\* Fill3Step with dst_y and dst_z exchanged in the coordinate
Fill3Step_Swapped(c) ==
    IF c.pc = "z"
    THEN IF c.nz < c.copy_shape[3] THEN EnterY(c) ELSE Return(c)
    ELSE IF c.ny < c.copy_shape[2]
         THEN FillRow(c, <<c.dst_start[1], c.dst_z, c.dst_y>>)
         ELSE NextZ(c)

Fill3Step(c) ==
    IF c.pc = "z"
    THEN IF c.nz < c.copy_shape[3] THEN EnterY(c) ELSE Return(c)
    ELSE IF c.ny < c.copy_shape[2]
         THEN FillRow(c, <<c.dst_start[1], c.dst_y, c.dst_z>>)
         ELSE NextZ(c)

Copy4Step(c) ==
    IF c.pc = "w"
    THEN IF c.nw < c.copy_shape[4] THEN EnterZ(c) ELSE Return(c)
    ELSE IF c.pc = "z"
    THEN IF c.nz < c.copy_shape[3] THEN EnterY(c) ELSE NextW(c)
    ELSE IF c.ny < c.copy_shape[2]
         THEN CopyRow(c, <<c.src_start[1], c.src_y, c.src_z, c.src_w>>,
                         <<c.dst_start[1], c.dst_y, c.dst_z, c.dst_w>>)
         ELSE NextZ(c)

Fill4Step(c) ==
    IF c.pc = "w"
    THEN IF c.nw < c.copy_shape[4] THEN EnterZ(c) ELSE Return(c)
    ELSE IF c.pc = "z"
    THEN IF c.nz < c.copy_shape[3] THEN EnterY(c) ELSE NextW(c)
    ELSE IF c.ny < c.copy_shape[2]
         THEN FillRow(c, <<c.dst_start[1], c.dst_y, c.dst_z, c.dst_w>>)
         ELSE NextZ(c)

Step(c) ==
    CASE c.fn = "copy2" -> Copy2Step(c)
      [] c.fn = "copy3" -> Copy3Step(c)
      [] c.fn = "copy4" -> Copy4Step(c)
      [] c.fn = "fill2" -> Fill2Step(c)
      [] c.fn = "fill3" -> Fill3Step(c)
      [] c.fn = "fill4" -> Fill4Step(c)

Running(c) == c.pc \in {"w", "z", "y"}

RECURSIVE Run(_)
\* one call from its entry to its return or its panic
Run(c) == IF Running(c) THEN Run(Step(c)) ELSE c

(* ------------------------------ calls --------------------------------- *)
Rank(f) == CASE f \in {"copy2", "fill2"} -> 2
             [] f \in {"copy3", "fill3"} -> 3
             [] f \in {"copy4", "fill4"} -> 4

IsCopy(f) == f \in {"copy2", "copy3", "copy4"}

Last(t) == t[Len(t)]

\* the state at the entry of a call, after the `let mut` of the outermost
\* loop counters
Entry(f, e, s, ss, sst, d, ds, dst0, v) ==
    LET n == Rank(f)
        so == IF IsCopy(f) THEN Last(sst) ELSE 0
    IN  [fn |-> f, copy_shape |-> e,
         src |-> s, src_shape |-> ss, src_start |-> sst,
         dst |-> d, dst_shape |-> ds, dst_start |-> dst0,
         value |-> v,
         src_y |-> IF n = 2 THEN so ELSE 0,
         dst_y |-> IF n = 2 THEN dst0[2] ELSE 0,
         src_z |-> IF n = 3 THEN so ELSE 0,
         dst_z |-> IF n = 3 THEN dst0[3] ELSE 0,
         src_w |-> IF n = 4 THEN so ELSE 0,
         dst_w |-> IF n = 4 THEN dst0[4] ELSE 0,
         ny |-> 0, nz |-> 0, nw |-> 0,
         pc |-> CASE n = 2 -> "y" [] n = 3 -> "z" [] n = 4 -> "w",
         runs |-> <<>>, written |-> {}]

CopyCall(f, e, s, ss, sst, d, ds, dst0) == Entry(f, e, s, ss, sst, d, ds, dst0, 0)

FillCall(f, e, v, d, ds, dst0) == Entry(f, e, <<>>, <<>>, <<>>, d, ds, dst0, v)

Cur ==
    [fn |-> fn, copy_shape |-> copy_shape,
     src |-> src, src_shape |-> src_shape, src_start |-> src_start,
     dst |-> dst, dst_shape |-> dst_shape, dst_start |-> dst_start,
     value |-> value,
     src_y |-> src_y, dst_y |-> dst_y, src_z |-> src_z, dst_z |-> dst_z,
     src_w |-> src_w, dst_w |-> dst_w, ny |-> ny, nz |-> nz, nw |-> nw,
     pc |-> pc, runs |-> runs, written |-> written]

Install(c) ==
    /\ fn' = c.fn /\ copy_shape' = c.copy_shape
    /\ src' = c.src /\ src_shape' = c.src_shape /\ src_start' = c.src_start
    /\ dst' = c.dst /\ dst_shape' = c.dst_shape /\ dst_start' = c.dst_start
    /\ value' = c.value
    /\ src_y' = c.src_y /\ dst_y' = c.dst_y
    /\ src_z' = c.src_z /\ dst_z' = c.dst_z
    /\ src_w' = c.src_w /\ dst_w' = c.dst_w
    /\ ny' = c.ny /\ nz' = c.nz /\ nw' = c.nw
    /\ pc' = c.pc /\ runs' = c.runs /\ written' = c.written

Starts(c) ==
    /\ fn = c.fn /\ copy_shape = c.copy_shape
    /\ src = c.src /\ src_shape = c.src_shape /\ src_start = c.src_start
    /\ dst = c.dst /\ dst_shape = c.dst_shape /\ dst_start = c.dst_start
    /\ value = c.value
    /\ src_y = c.src_y /\ dst_y = c.dst_y
    /\ src_z = c.src_z /\ dst_z = c.dst_z
    /\ src_w = c.src_w /\ dst_w = c.dst_w
    /\ ny = c.ny /\ nz = c.nz /\ nw = c.nw
    /\ pc = c.pc /\ runs = c.runs /\ written = c.written

(* ------------------------------ inputs -------------------------------- *)
Shapes(n) == [1 .. n -> 1 .. MaxDim]
StartCoords(n) == [1 .. n -> 0 .. MaxStart]
Extents(n) == [1 .. n -> 0 .. MaxExt]
Uniform(n, k) == [a \in 1 .. n |-> k]

\* a side of a copy whose shape and start are the same on every axis
UniformSides(n) ==
    {<<Uniform(n, d), Uniform(n, s)>> : d \in 1 .. MaxDim, s \in 0 .. MaxStart}

GeneralSides(n) == Shapes(n) \X StartCoords(n)

\* the (source side, destination side) pairs of the copies that are run: one
\* side is any shape and start, the other is uniform
SidePairs(n) ==
    (GeneralSides(n) \X UniformSides(n)) \cup (UniformSides(n) \X GeneralSides(n))

\* one side of the fit precondition: start[a] + extent[a] <= dimension a
FitSide(e, start, shape) ==
    \A a \in 1 .. Len(e) : start[a] + e[a] <= shape[a]

\* the region fits both buffers
FitOf(c) ==
    /\ FitSide(c.copy_shape, c.dst_start, c.dst_shape)
    /\ IsCopy(c.fn) => FitSide(c.copy_shape, c.src_start, c.src_shape)

\* the calls of copyN that are run; with fit, only those whose region fits
InitCopy(fit) ==
    \E f \in {"copy2", "copy3", "copy4"} :
        \E e \in Extents(Rank(f)) :
            \E sp \in SidePairs(Rank(f)) :
                /\ fit => FitSide(e, sp[1][2], sp[1][1]) /\ FitSide(e, sp[2][2], sp[2][1])
                /\ Starts(CopyCall(f, e, SrcOf(sp[1][1]), sp[1][1], sp[1][2],
                                   DstOf(sp[2][1]), sp[2][1], sp[2][2]))

\* the calls of fillN that are run
InitFill(fit) ==
    \E f \in {"fill2", "fill3", "fill4"} :
        \E e \in Extents(Rank(f)) :
            \E v \in 1 .. MaxValue :
                \E side \in GeneralSides(Rank(f)) :
                    /\ fit => FitSide(e, side[2], side[1])
                    /\ Starts(FillCall(f, e, v, DstOf(side[1]), side[1], side[2]))

Init == InitCopy(FALSE) \/ InitFill(FALSE)

InitFit == InitCopy(TRUE) \/ InitFill(TRUE)

copy2 == fn = "copy2" /\ Running(Cur) /\ Install(Copy2Step(Cur))
copy3 == fn = "copy3" /\ Running(Cur) /\ Install(Copy3Step(Cur))
copy4 == fn = "copy4" /\ Running(Cur) /\ Install(Copy4Step(Cur))
fill2 == fn = "fill2" /\ Running(Cur) /\ Install(Fill2Step(Cur))
fill3 == fn = "fill3" /\ Running(Cur) /\ Install(Fill3Step(Cur))
fill4 == fn = "fill4" /\ Running(Cur) /\ Install(Fill4Step(Cur))

Next == copy2 \/ copy3 \/ copy4 \/ fill2 \/ fill3 \/ fill4

\* every input of the bounded sets, fitting or not
Spec == Init /\ [][Next]_vars

\* the inputs that satisfy the fit precondition
SpecFit == InitFit /\ [][Next]_vars

(* ------------------- the call in the current state -------------------- *)
Fit == FitOf(Cur)

\* the coordinates c with 0 <= c[a] < extent[a] on every axis
RECURSIVE Box(_)
Box(e) ==
    IF e = <<>> THEN {<<>>}
    ELSE {<<x>> \o r : x \in 0 .. e[1] - 1, r \in Box(Tail(e))}

Offsets == Box(copy_shape)

Plus(p, c) == [a \in 1 .. Len(p) |-> p[a] + c[a]]

DstIndex(c) == Linearize(dst_shape, Plus(dst_start, c))

SrcIndex(c) == Linearize(src_shape, Plus(src_start, c))

\* the destination indices of the addressed region
Region == {DstIndex(c) : c \in Offsets}

\* the buffers before the call
DstPre == DstOf(dst_shape)

SrcPre == IF IsCopy(fn) THEN SrcOf(src_shape) ELSE <<>>

(* ------------------------------- C1 ----------------------------------- *)
\* C1: when the region fits both buffers, copyN returns and then every
\* destination element of the region, dst[dst_shape.linearize(dst_start+c)],
\* equals the pre-call src[src_shape.linearize(src_start+c)].
C1_CopyRegion ==
    IsCopy(fn) =>
        /\ pc # "panic"
        /\ pc = "done" =>
               \A c \in Offsets : dst[DstIndex(c)] = SrcPre[SrcIndex(c)]

\* a copy4 of at least four non-empty rows between buffers of different
\* shapes, at different starts, has returned
C1_Witness ==
    /\ fn = "copy4" /\ pc = "done"
    /\ Len(runs) >= 4 /\ copy_shape[1] >= 1
    /\ src_shape # dst_shape /\ src_start # dst_start

(* ------------------------------- C2 ----------------------------------- *)
\* C2: when the region fits, copyN never changes a destination element
\* outside the addressed region (it writes no index outside it), and never
\* changes the source.
C2_CopyFrame ==
    IsCopy(fn) =>
        /\ written \subseteq Region
        /\ \A i \in DOMAIN DstPre : i \notin Region => dst[i] = DstPre[i]
        /\ DOMAIN dst = DOMAIN DstPre
        /\ src = SrcPre

\* a copy3 has returned after writing a region of several elements that
\* is not the whole destination
C2_Witness ==
    /\ fn = "copy3" /\ pc = "done"
    /\ Cardinality(Region) >= 4 /\ written = Region
    /\ Cardinality(Region) < BufLen(dst)

(* ------------------------------- C3 ----------------------------------- *)
\* C3: when the region fits, fillN returns and then the destination indices
\* it has written are exactly those of the region, each of them holds the
\* value, and every other index holds its pre-call value.
C3_FillRegion ==
    ~IsCopy(fn) =>
        /\ pc # "panic"
        /\ pc = "done" =>
               /\ written = Region
               /\ {i \in DOMAIN dst : dst[i] = value} = Region
               /\ \A i \in DOMAIN DstPre : i \notin Region => dst[i] = DstPre[i]
               /\ DOMAIN dst = DOMAIN DstPre

\* a fill4 of several rows that leaves part of the destination alone has
\* returned
C3_Witness ==
    /\ fn = "fill4" /\ pc = "done"
    /\ Len(runs) >= 4 /\ Cardinality(Region) >= 4
    /\ Cardinality(Region) < BufLen(dst)

(* ----------------------- runs, as the text has them ------------------- *)
\* the number of combinations of offsets on the outer axes
TotalRuns == Size(Tail(copy_shape))

\* the run of the k-th combination (from 0) of outer offsets, axis 1 varying
\* fastest and axis N-1 slowest
ExpectedRun(k) ==
    LET o == <<0>> \o Delinearize(Tail(copy_shape), k)
    IN  [src_row_start |-> IF IsCopy(fn) THEN SrcIndex(o) ELSE 0,
         dst_row_start |-> DstIndex(o),
         row_length |-> copy_shape[1]]

ExpectedRuns == [k \in 1 .. TotalRuns |-> ExpectedRun(k - 1)]

IsPrefix(s, t) == Len(s) <= Len(t) /\ s = SubSeq(t, 1, Len(s))

\* the destination after one run on buffers it is in range of
ApplyRun(d, r) ==
    IF IsCopy(fn)
    THEN CloneFromSlice(d, r.dst_row_start, r.dst_row_start + r.row_length,
                        src, r.src_row_start)
    ELSE FillSlice(d, r.dst_row_start, r.dst_row_start + r.row_length, value)

RECURSIVE ApplyRuns(_, _)
ApplyRuns(d, rs) ==
    IF rs = <<>> THEN d ELSE ApplyRuns(ApplyRun(d, Head(rs)), Tail(rs))

AnyZero == \E a \in 1 .. Rank(fn) : copy_shape[a] = 0

(* ------------------------------- C4 ----------------------------------- *)
\* C4, as claimed: if any axis of the extent is 0 then, for every choice of
\* start coordinates, the call completes normally and leaves the source and
\* the destination as they were.
C4_Original ==
    AnyZero => pc # "panic" /\ dst = DstPre /\ src = SrcPre

\* C4, amended: if any axis of the extent is 0, no element is written and
\* the source and the destination are as they were, whether the call
\* returns or not; the call completes normally when the region fits.
C4_ZeroExtent ==
    AnyZero =>
        /\ written = {} /\ dst = DstPre /\ src = SrcPre
        /\ Fit => pc # "panic"

\* a call with extent 0 on axis 0 has returned after two or more runs of
\* length 0, one of them at the very end of the destination
C4_Witness ==
    /\ AnyZero /\ Fit /\ pc = "done" /\ Len(runs) >= 2
    /\ \E k \in 1 .. Len(runs) : runs[k].dst_row_start = BufLen(dst)

(* ------------------------------- C5 ----------------------------------- *)
\* C5, as claimed: for every input, when the call is over the destination
\* is either updated by every run of the extent or identical to its pre-call
\* contents.
C5_Original ==
    pc \in {"done", "panic"} => runs = ExpectedRuns \/ dst = DstPre

\* C5, amended: a call whose region fits returns with every run written; a
\* call that returns has written every run; a call stopped by a range check
\* has a region that does not fit and leaves exactly the runs before the
\* failing one written, which may be some of the runs and not all.
C5_PrefixOrAll ==
    /\ Fit => pc # "panic"
    /\ pc = "done" => runs = ExpectedRuns /\ dst = ApplyRuns(DstPre, runs)
    /\ pc = "panic" =>
           /\ ~Fit
           /\ Len(runs) < TotalRuns /\ IsPrefix(runs, ExpectedRuns)
           /\ dst = ApplyRuns(DstPre, runs)

\* a call was stopped by a range check after it had changed the destination
C5_Witness ==
    pc = "panic" /\ Len(runs) >= 1 /\ dst # DstPre

(* ------------------------------- C8 ----------------------------------- *)
\* section 4.1's precondition: every coordinate start + offset, offset in
\* [0, extent), linearizes to an index inside its buffer
InBoundsPre ==
    \A c \in Offsets :
        /\ DstIndex(c) < BufLen(dst)
        /\ IsCopy(fn) => SrcIndex(c) < BufLen(src)

RunsOverlap(r, q) ==
    /\ r.dst_row_start < q.dst_row_start + q.row_length
    /\ q.dst_row_start < r.dst_row_start + r.row_length

RunsDisjoint ==
    \A j, k \in 1 .. Len(runs) : j < k => ~RunsOverlap(runs[j], runs[k])

\* the runs that write destination index i
Writers(i) ==
    {k \in 1 .. Len(runs) :
        /\ runs[k].dst_row_start <= i
        /\ i < runs[k].dst_row_start + runs[k].row_length}

\* what run k writes at destination index i
RunValue(k, i) ==
    IF IsCopy(fn)
    THEN src[runs[k].src_row_start + (i - runs[k].dst_row_start)]
    ELSE value

\* the destination does not depend on the order of the runs: no index is
\* given two different values, and each index holds the value of the run
\* that writes it, or its pre-call value
OrderFree ==
    \A i \in DOMAIN dst :
        /\ Cardinality({RunValue(k, i) : k \in Writers(i)}) <= 1
        /\ \A k \in Writers(i) : dst[i] = RunValue(k, i)
        /\ Writers(i) = {} => dst[i] = DstPre[i]

\* C8, as claimed: whenever section 4.1's precondition holds, the
\* destination ranges of distinct runs are pairwise disjoint and the final
\* destination does not depend on the order of the runs.
C8_Original ==
    \/ RunsDisjoint /\ (pc = "done" => OrderFree)
    \/ ~InBoundsPre

\* C8, amended: whenever the region fits (start[a] + extent[a] <= dimension
\* a on every axis of each buffer), the destination ranges of distinct runs
\* are pairwise disjoint and the final destination does not depend on the
\* order of the runs.
C8_FitDisjoint ==
    Fit => RunsDisjoint /\ (pc = "done" => OrderFree)

\* a fitting copy4 of four or more rows of two elements has returned
C8_Witness ==
    /\ Fit /\ fn = "copy4" /\ pc = "done"
    /\ Len(runs) >= 4 /\ copy_shape[1] >= 2

(* ------------------------------- C9 ----------------------------------- *)
\* the row the innermost loop body is about to transfer
CurDstRowStart ==
    Linearize(dst_shape, SubSeq(<<dst_start[1], dst_y, dst_z, dst_w>>, 1, Rank(fn)))

CurSrcRowStart ==
    Linearize(src_shape, SubSeq(<<src_start[1], src_y, src_z, src_w>>, 1, Rank(fn)))

CurRowOutOfRange ==
    \/ CurDstRowStart + copy_shape[1] > BufLen(dst)
    \/ IsCopy(fn) /\ CurSrcRowStart + copy_shape[1] > BufLen(src)

RunInRange(r) ==
    /\ r.dst_row_start + r.row_length <= BufLen(DstPre)
    /\ IsCopy(fn) => r.src_row_start + r.row_length <= BufLen(SrcPre)

\* C9: in every step of every call, fitting or not, the rows transferred
\* lie inside both buffers and no index outside the destination is
\* written; the step that stops the call is taken at a row whose range
\* exceeds the source or the destination, and it writes nothing, so that
\* the runs completed earlier are left as written.
C9_BoundsSafety ==
    [][/\ \A k \in 1 .. Len(runs') : RunInRange(runs'[k])
       /\ written' \subseteq DOMAIN DstPre
       /\ DOMAIN dst' = DOMAIN DstPre
       /\ pc' = "panic" =>
              /\ CurRowOutOfRange
              /\ dst' = dst /\ runs' = runs /\ written' = written]_vars

\* a copy was stopped at a row of two elements of which the first is
\* inside the destination, after an earlier row
C9_Witness ==
    /\ IsCopy(fn) /\ pc = "panic" /\ Len(runs) >= 1 /\ copy_shape[1] = 2
    /\ CurDstRowStart < BufLen(dst)
    /\ CurSrcRowStart + copy_shape[1] <= BufLen(src)

(* ------------------------------- C6 ----------------------------------- *)
\* the shapes of the bounded set that the extent e fits at start
FitShapes(e, start) == {s \in Shapes(Len(e)) : FitSide(e, start, s)}

\* C6: the values a fitting copyN leaves in the addressed region do not
\* depend on the full shapes of the two buffers: for every other pair of
\* source and destination shapes in which the same starts and extent fit,
\* and a source holding the same elements at the same coordinates, the call
\* returns with the same value at every coordinate dst_start + c.
C6_ShapeIndependent ==
    IsCopy(fn) /\ pc = "done" =>
        LET region == Offsets
            got == [c \in region |-> dst[DstIndex(c)]]
        IN  \A ss \in FitShapes(copy_shape, src_start) :
                LET s == SrcOf(ss)
                IN  \A ds \in FitShapes(copy_shape, dst_start) :
                        LET r == Run(CopyCall(fn, copy_shape, s, ss, src_start,
                                              DstOf(ds), ds, dst_start))
                        IN  /\ r.pc = "done"
                            /\ \A c \in region :
                                   r.dst[Linearize(ds, Plus(dst_start, c))] = got[c]

\* a copy3 of several elements between buffers of different shapes has
\* returned, and the same starts and extent fit another pair of shapes
C6_Witness ==
    /\ fn = "copy3" /\ pc = "done"
    /\ Cardinality(Region) >= 2 /\ src_shape # dst_shape
    /\ \E ss \in Shapes(3), ds \in Shapes(3) :
           /\ ss # src_shape /\ ds # dst_shape /\ Size(ss) # Size(ds)
           /\ FitSide(copy_shape, src_start, ss)
           /\ FitSide(copy_shape, dst_start, ds)

(* ------------------------------- C7 ----------------------------------- *)
\* how far the call is in its loop nest: a number that grows with every
\* loop head passed and every row transferred, and is largest when the call
\* is over
Measure ==
    LET b == MaxExt + 2
        inW == IF pc = "w" THEN 0 ELSE 1
        inZ == IF pc = "y" THEN 1 ELSE 0
        z == IF pc \in {"z", "y"} THEN nz ELSE 0
        y == IF pc = "y" THEN ny ELSE 0
    IN  IF pc \in {"done", "panic"} THEN b * b * b * b * b
        ELSE (((nw * 2 + inW) * b + z) * 2 + inZ) * b + y

\* C7: a step of a call either makes no run or makes the next run of the
\* enumeration of the outer offsets (axis 1 fastest, axis N-1 slowest), of
\* length extent[0] and starting at linearize(start[0], start[1]+o[1], ..)
\* on each side; every step brings the call nearer to its end; a call that
\* returns has made exactly the extent[1]*..*extent[N-1] runs of the
\* enumeration, each once and in that order; and a call whose region fits
\* does return.
C7_RunSequence ==
    [][/\ \/ runs' = runs
          \/ /\ Len(runs) < TotalRuns
             /\ runs' = Append(runs, ExpectedRun(Len(runs)))
       /\ Measure' > Measure
       /\ pc' = "done" => runs' = ExpectedRuns' /\ Len(runs') = TotalRuns'
       /\ pc' = "panic" => ~Fit]_vars

\* a copy4 has returned after eight runs, two on each outer axis
C7_Witness ==
    /\ fn = "copy4" /\ pc = "done" /\ Len(runs) = 8
    /\ copy_shape[1] >= 1

(* ------------------------------- C10 ---------------------------------- *)
CopyFn(n) == CASE n = 2 -> "copy2" [] n = 3 -> "copy3" [] n = 4 -> "copy4"

\* C10: a fitting fillN of value v leaves the destination exactly as copyN
\* leaves it, from the same pre-call destination, extent and dst_start, for
\* every source shape and src_start the extent fits, when every source
\* element is v.
C10_FillAsCopy ==
    ~IsCopy(fn) /\ pc = "done" =>
        \A ss \in Shapes(Rank(fn)), sst \in StartCoords(Rank(fn)) :
            FitSide(copy_shape, sst, ss) =>
                LET r == Run(CopyCall(CopyFn(Rank(fn)), copy_shape,
                                      ConstBuf(ss, value), ss, sst,
                                      DstPre, dst_shape, dst_start))
                IN  r.pc = "done" /\ r.dst = dst

\* a fill3 of four or more rows that leaves part of the destination alone
\* has returned
C10_Witness ==
    /\ fn = "fill3" /\ pc = "done"
    /\ Len(runs) >= 4 /\ copy_shape[1] >= 1
    /\ Cardinality(Region) < BufLen(dst)
====
